---------------------------- MODULE Spec2Model ----------------------------
(***************************************************************************)
(* A model of mh_amcl::ParticlesDistribution                               *)
(* (src/src/mh_amcl/ParticlesDistribution.cpp): the particle set, the      *)
(* motion model (predict / add_noise), the likelihood-field sensor model   *)
(* (correct_once / get_error_distance_to_obstacle), normalize and reseed.  *)
(*                                                                         *)
(* Numbers.  Lengths are integers in units of 0.05 m, so that sigma        *)
(* (o = 0.05) is one unit.  Angles are integers in quarter turns, which    *)
(* keeps every rotation exact on the integer lattice.  Poses are planar    *)
(* (z = roll = pitch = 0).  Weights (double in the code) are exact         *)
(* rationals <<numerator, denominator>> in lowest terms; floating-point    *)
(* rounding is not modelled.  A range reading is a record that keeps the   *)
(* three kinds of double apart: finite, NaN and infinite.                  *)
(***************************************************************************)
EXTENDS Integers, Sequences, FiniteSets, TLC

(***************************************************************************)
(* Bounds of the model                                                     *)
(***************************************************************************)
\* number of particles of the build (NUM_PART, set in the header)
NUM_PART == 5
\* number of calls explored after init()
MaxOps == 2
\* seeds handed to the generator by rd_() : 0 .. MaxSeed
MaxSeed == 1
\* number of correct_once calls explored step by step
MaxCalls == 1
\* largest weight numerator (tenths) of the vectors given to normalize alone
MaxTenth == 4

(***************************************************************************)
(* Exact rational arithmetic for the weights                               *)
(***************************************************************************)
Abs(n) == IF n < 0 THEN -n ELSE n

RECURSIVE Gcd(_, _)
Gcd(a, b) == IF b = 0 THEN a ELSE Gcd(b, a % b)

\* the fraction n/d (d # 0) in lowest terms with a positive denominator
Rat(n, d) ==
    LET g == Gcd(Abs(n), Abs(d))
        s == IF d < 0 THEN -1 ELSE 1
    IN  <<s * (n \div g), s * (d \div g)>>

RZero == <<0, 1>>
ROne == <<1, 1>>

RAdd(a, b) ==
    LET g == Gcd(a[2], b[2])
    IN  Rat(a[1] * (b[2] \div g) + b[1] * (a[2] \div g), a[2] * (b[2] \div g))

RMul(a, b) ==
    LET g1 == Gcd(Abs(a[1]), b[2])
        g2 == Gcd(Abs(b[1]), a[2])
    IN  Rat((a[1] \div g1) * (b[1] \div g2), (a[2] \div g2) * (b[2] \div g1))

\* a / b, for b # 0
RDiv(a, b) == RMul(a, Rat(b[2], b[1]))

\* a1/a2 < b1/b2 for non-negative fractions, by continued fractions (no
\* cross products, so no overflow)
RECURSIVE FracLess(_, _, _, _)
FracLess(a1, a2, b1, b2) ==
    LET qa == a1 \div a2
        qb == b1 \div b2
        ra == a1 % a2
        rb == b1 % b2
    IN  IF qa # qb THEN qa < qb
        ELSE IF rb = 0 THEN FALSE
        ELSE IF ra = 0 THEN TRUE
        ELSE FracLess(b2, rb, a2, ra)

RLess(a, b) ==
    IF a[1] < 0 /\ b[1] >= 0 THEN TRUE
    ELSE IF a[1] >= 0 /\ b[1] < 0 THEN FALSE
    ELSE IF a[1] < 0 THEN FracLess(-b[1], b[2], -a[1], a[2])
    ELSE FracLess(a[1], a[2], b[1], b[2])

RLeq(a, b) == ~RLess(b, a)

\* std::max(a, b)
RMax(a, b) == IF RLess(a, b) THEN b ELSE a

(***************************************************************************)
(* tf2::Transform restricted to the plane                                  *)
(***************************************************************************)
Pose(x, y, yaw) == [x |-> x, y |-> y, yaw |-> yaw % 4]

Identity == Pose(0, 0, 0)

Cos4(a) == CASE a % 4 = 0 -> 1 [] a % 4 = 1 -> 0 [] a % 4 = 2 -> -1 [] OTHER -> 0
Sin4(a) == CASE a % 4 = 0 -> 0 [] a % 4 = 1 -> 1 [] a % 4 = 2 -> 0 [] OTHER -> -1

\* tf2::Transform::operator* : apply b in the frame of a
Compose(a, b) ==
    Pose(a.x + Cos4(a.yaw) * b.x - Sin4(a.yaw) * b.y,
         a.y + Sin4(a.yaw) * b.x + Cos4(a.yaw) * b.y,
         a.yaw + b.yaw)

\* tf2::Matrix3x3::getRPY : the yaw, in (-pi, pi]
getYaw(p) == IF p.yaw = 3 THEN -1 ELSE p.yaw

(***************************************************************************)
(* The random engine generator_ and one draw of a normal_distribution      *)
(***************************************************************************)
\* the engine's state after one more draw
NextGen(g) == (5 * g + 3) % 8

RECURSIVE Advance(_, _)
Advance(g, n) == IF n = 0 THEN g ELSE Advance(NextGen(g), n - 1)

\* the value a zero-mean distribution returns in engine state g
Sample(g) == (g % 3) - 1

\* the k-th draw (k = 0, 1, ...) made from engine state g
Draw(g, k) == Sample(Advance(g, k))

(***************************************************************************)
(* Doubles that may be NaN or infinite (scan ranges, error distances)      *)
(***************************************************************************)
Fin(v) == [kind |-> "fin", v |-> v]
NaN == [kind |-> "nan", v |-> 0]
Infinity == [kind |-> "inf", v |-> 0]

isnan(d) == d.kind = "nan"
isinf(d) == d.kind = "inf"

(***************************************************************************)
(* Particle set: normalize, init, predict                                  *)
(***************************************************************************)
Particle(pose, prob) == [pose |-> pose, prob |-> prob]

\* the sum accumulated by normalize's first for_each, over ps[1..n]
RECURSIVE SumProb(_, _)
SumProb(ps, n) == IF n = 0 THEN RZero ELSE RAdd(SumProb(ps, n - 1), ps[n].prob)

\* a wrong normalize: divides by the particle count instead of the sum
normalize_by_count(ps) ==
    [k \in 1..Len(ps) |-> [ps[k] EXCEPT !.prob = RDiv(@, <<Len(ps), 1>>)]]

normalize(ps) ==
    LET sum == SumProb(ps, Len(ps))
    IN  IF sum # RZero
        THEN [k \in 1..Len(ps) |-> [ps[k] EXCEPT !.prob = RDiv(@, sum)]]
        ELSE ps

\* init(pose_init) with the engine in state g: three draws per particle
init(pose_init, g) ==
    normalize(
      [k \in 1..NUM_PART |->
         Particle(Pose(pose_init.x + Draw(g, 3 * (k - 1)),
                       pose_init.y + Draw(g, 3 * (k - 1) + 1),
                       getYaw(pose_init) + Draw(g, 3 * (k - 1) + 2)),
                  Rat(1, NUM_PART))])

\* a wrong add_noise: the noise is added to the movement, not scaled by it
add_noise_additive(dm, g) ==
    Pose(dm.x + Sample(g), dm.y + Sample(g), getYaw(dm) + Sample(NextGen(g)))

\* add_noise(dm) with the engine in state g: two draws
add_noise(dm, g) ==
    LET noise_tra == Sample(g)
        noise_rot == Sample(NextGen(g))
        x == dm.x * noise_tra
        y == dm.y * noise_tra
        newyaw == getYaw(dm) * noise_rot
    IN  Pose(x, y, newyaw)

predict(ps, movement, g) ==
    [k \in 1..Len(ps) |->
       [ps[k] EXCEPT !.pose =
          Compose(Compose(@, movement), add_noise(movement, Advance(g, 2 * (k - 1))))]]

(***************************************************************************)
(* Occupancy grid (nav2_costmap_2d::Costmap2D) as the code reads it.       *)
(* A costmap is [resolution, size_x, size_y, lethal, unknown] with its     *)
(* origin at (0, 0); lethal and unknown are sets of cells <<mx, my>>.      *)
(***************************************************************************)
FREE_SPACE == 0
LETHAL_OBSTACLE == 254
NO_INFORMATION == 255

\* Costmap2D::worldToMap succeeds: the point lies on the grid
worldToMap(wx, wy, costmap) ==
    /\ wx >= 0
    /\ wy >= 0
    /\ costmap.resolution > 0
    /\ wx \div costmap.resolution < costmap.size_x
    /\ wy \div costmap.resolution < costmap.size_y

\* Costmap2D::getCost of the cell holding the point
getCost(wx, wy, costmap) ==
    LET cell == <<wx \div costmap.resolution, wy \div costmap.resolution>>
    IN  IF cell \in costmap.lethal THEN LETHAL_OBSTACLE
        ELSE IF cell \in costmap.unknown THEN NO_INFORMATION
        ELSE FREE_SPACE

\* a wrong get_cost: a point off the grid is taken for an obstacle
get_cost_off_grid_lethal(transform, costmap) ==
    IF worldToMap(transform.x, transform.y, costmap)
    THEN getCost(transform.x, transform.y, costmap)
    ELSE LETHAL_OBSTACLE

get_cost(transform, costmap) ==
    IF worldToMap(transform.x, transform.y, costmap)
    THEN getCost(transform.x, transform.y, costmap)
    ELSE NO_INFORMATION

(***************************************************************************)
(* Sensor model                                                            *)
(***************************************************************************)
\* sigma of the likelihood field, and the floor of a weight
o == 1
MinProb == <<1, 1000000>>

\* inv_sqrt_2pi / o = 0.3989 / 0.05, about 7.98
normal_comp_1 == <<8, 1>>

\* std::exp(-0.5 * a * a) : 1, 0.607, 0.135, ...
normal_comp_2(a) ==
    CASE a = 0 -> <<1, 1>>
      [] a = 1 -> <<3, 5>>
      [] a = 2 -> <<1, 8>>
      [] OTHER -> <<1, 100>>

\* the reading of index `index` (0-based) as a point in the sensor frame;
\* a NaN or infinite range gives NaN or infinite coordinates
get_tranform_to_read(scan, index) ==
    LET dist == scan.ranges[index + 1]
        angle == scan.angle_min + index * scan.angle_increment
    IN  [kind |-> dist.kind, x |-> dist.v * Cos4(angle), y |-> dist.v * Sin4(angle)]

\* laser2point.getOrigin() / laser2point.getOrigin().length()
UnitVector(laser2point) ==
    LET len == Abs(laser2point.x) + Abs(laser2point.y)
    IN  [x |-> laser2point.x \div len, y |-> laser2point.y \div len]

\* map2bf * bf2laser * laser2point
MapPoint(map2bf, bf2laser, laser2point) ==
    Compose(Compose(map2bf, bf2laser), Pose(laser2point.x, laser2point.y, 0))

\* map2point_aux * uvector, uvector's origin being unit * d
Offset(aux, unit, d) == Compose(aux, Pose(unit.x * d, unit.y * d, 0))

\* the loop condition of the outward search
InSearch(dist) == dist < 3 * o

\* one pass of the loop body finds an obstacle: first at +dist, then at -dist
Probe(aux, unit, dist, costmap) ==
    \/ get_cost(Offset(aux, unit, dist), costmap) = LETHAL_OBSTACLE
    \/ get_cost(Offset(aux, unit, -dist), costmap) = LETHAL_OBSTACLE

\* the while loop entered with `dist`; defined for resolution > 0
RECURSIVE Search(_, _, _, _)
Search(aux, unit, dist, costmap) ==
    IF ~InSearch(dist) THEN Infinity
    ELSE IF Probe(aux, unit, dist, costmap) THEN Fin(dist)
    ELSE Search(aux, unit, dist + costmap.resolution, costmap)

get_error_distance_to_obstacle(map2bf, bf2laser, laser2point, costmap) ==
    IF laser2point.kind # "fin" THEN Infinity
    ELSE LET map2point == MapPoint(map2bf, bf2laser, laser2point)
             unit == UnitVector(laser2point)
         IN  IF get_cost(map2point, costmap) = LETHAL_OBSTACLE THEN Fin(0)
             ELSE Search(map2point, unit, costmap.resolution, costmap)

\* a wrong update: the likelihood multiplies the weight
UpdateProbMul(prob, calculated_distance) ==
    IF ~isinf(calculated_distance)
    THEN RMax(RMul(prob, RMul(normal_comp_1, normal_comp_2(calculated_distance.v \div o))),
              MinProb)
    ELSE prob

\* the weight of a particle after one reading whose error is calculated_distance
UpdateProb(prob, calculated_distance) ==
    IF ~isinf(calculated_distance)
    THEN LET a == calculated_distance.v \div o
             p == RMul(normal_comp_1, normal_comp_2(a))
         IN  RMax(RAdd(prob, p), MinProb)
    ELSE prob

\* the inner loop over the particles, for the reading at laser2point
CorrectReading(ps, bf2laser, laser2point, costmap) ==
    [i \in 1..Len(ps) |->
       [ps[i] EXCEPT !.prob =
          UpdateProb(@, get_error_distance_to_obstacle(
                          ps[i].pose, bf2laser, laser2point, costmap))]]

\* the test that skips a reading
SkipReading(range) == isnan(range) \/ isinf(range)

\* a wrong loop: the NaN and infinite readings are dropped from the scan
\* first, so that the readings behind them move to lower indexes
IsFinite(range) == range.kind = "fin"

RECURSIVE CorrectEvery(_, _, _, _, _)
CorrectEvery(ps, j, scan, costmap, bf2laser) ==
    IF j >= Len(scan.ranges) THEN ps
    ELSE CorrectEvery(
           CorrectReading(ps, bf2laser, get_tranform_to_read(scan, j), costmap),
           j + 1, scan, costmap, bf2laser)

CorrectFromFiltered(ps, j, scan, costmap, bf2laser) ==
    CorrectEvery(ps, j, [scan EXCEPT !.ranges = SelectSeq(@, IsFinite)],
                 costmap, bf2laser)

\* the outer loop from reading j (0-based) on
RECURSIVE CorrectFrom(_, _, _, _, _)
CorrectFrom(ps, j, scan, costmap, bf2laser) ==
    IF j >= Len(scan.ranges) THEN ps
    ELSE IF SkipReading(scan.ranges[j + 1])
         THEN CorrectFrom(ps, j + 1, scan, costmap, bf2laser)
         ELSE CorrectFrom(
                CorrectReading(ps, bf2laser, get_tranform_to_read(scan, j), costmap),
                j + 1, scan, costmap, bf2laser)

\* what one call of correct_once leaves: the particle set, bf2laser_, whether
\* a warning was logged, and how many readings went past the skip test.
\* tf is the transform buffer's answer: [ok, t], t being base_footprint -> laser.

\* a wrong correct_once: on a missing transform it warns and goes on with the
\* transform kept from an earlier scan
correct_once_no_return(ps, bf2laser, scan, costmap, tf) ==
    LET t == IF tf.ok THEN tf.t ELSE bf2laser
    IN  [particles |-> CorrectFrom(ps, 0, scan, costmap, t),
         bf2laser |-> t,
         warned |-> ~tf.ok,
         processed |-> Cardinality({j \in 1..Len(scan.ranges) :
                                      ~SkipReading(scan.ranges[j])})]

correct_once(ps, bf2laser, scan, costmap, tf) ==
    IF tf.ok
    THEN [particles |-> CorrectFrom(ps, 0, scan, costmap, tf.t),
          bf2laser |-> tf.t,
          warned |-> FALSE,
          processed |-> Cardinality({j \in 1..Len(scan.ranges) :
                                       ~SkipReading(scan.ranges[j])})]
    ELSE [particles |-> ps, bf2laser |-> bf2laser, warned |-> TRUE, processed |-> 0]

(***************************************************************************)
(* Resampler                                                               *)
(***************************************************************************)
Reverse(s) == [k \in 1..Len(s) |-> s[Len(s) + 1 - k]]

\* p put into the descending sequence s, behind the entries not lighter than p
InsertDesc(s, p) ==
    LET k == Cardinality({i \in 1..Len(s) : RLeq(p.prob, s[i].prob)})
    IN  SubSeq(s, 1, k) \o <<p>> \o SubSeq(s, k + 1, Len(s))

RECURSIVE SortPrefix(_, _)
SortPrefix(ps, n) == IF n = 0 THEN <<>> ELSE InsertDesc(SortPrefix(ps, n - 1), ps[n])

\* std::sort with the comparator a.prob > b.prob.  The sort is not stable: the
\* order it leaves among particles of equal weight is unspecified.  Two of the
\* orders it may leave are drawn: equal weights in their old order, and reversed.
SortOutcomes(ps) == {SortPrefix(ps, Len(ps)), SortPrefix(Reverse(ps), Len(ps))}

\* int(size * 0.8), size - number_losers, int(size * 0.03)
number_losers(size) == (8 * size) \div 10

\* a wrong count of the kept particles: one too many
number_no_losers_plus_one(size) == size - number_losers(size) + 1

number_no_losers(size) == size - number_losers(size)
number_winners(size) == (3 * size) \div 100

clamp(v, lo, hi) == IF v < lo THEN lo ELSE IF hi < v THEN hi ELSE v

\* std::clamp(static_cast<int>(selector(generator_)), 0, number_winners),
\* selector having standard deviation number_winners
SelectorIndex(g, winners) == clamp(Sample(g) * winners, 0, winners)

\* the index into the sorted set of the particle that loser i is built from:
\* particles_[i]; the drawn index is not used
BaseOf(i, index) == i

\* a wrong weight: half of the last kept particle's weight for every new one
NewProbOfSurvivor(new, kept) == RDiv(new[kept].prob, <<2, 1>>)

\* new_particles.back().prob / 2.0
NewProb(new, kept) == RDiv(new[Len(new)].prob, <<2, 1>>)

\* the body of the loop for loser i, the engine being in state g: four draws
NewParticle(new, i, sorted, g, kept, winners) ==
    LET index == SelectorIndex(g, winners)
        prob == NewProb(new, kept)
        base == sorted[BaseOf(i, index) + 1].pose
        nx == Draw(g, 1)
        ny == Draw(g, 2)
        newyaw == getYaw(base) + Draw(g, 3)
    IN  Particle(Pose(base.x + nx, base.y + ny, newyaw), prob)

RECURSIVE Regenerate(_, _, _, _, _, _)
Regenerate(new, i, sorted, g, losers, winners) ==
    IF i >= losers THEN new
    ELSE Regenerate(
           Append(new, NewParticle(new, i, sorted, Advance(g, 4 * i),
                                   Len(sorted) - losers, winners)),
           i + 1, sorted, g, losers, winners)

\* reseed() from the sorted set on
reseed(sorted, g) ==
    LET size == Len(sorted)
    IN  Regenerate(SubSeq(sorted, 1, number_no_losers(size)), 0, sorted, g,
                   number_losers(size), number_winners(size))

(***************************************************************************)
(* Inputs                                                                  *)
(***************************************************************************)
\* initial poses given to init()
SeedPoses == {Pose(3, 3, 0), Pose(4, 2, 1)}

\* odometry increments given to predict()
Movements == {Identity, Pose(1, 0, 0), Pose(0, 1, 1)}

\* a wall of lethal cells, one cell wide, on a grid of resolution 0.05
WallMap ==
    [resolution |-> 1, size_x |-> 8, size_y |-> 8,
     lethal |-> {<<6, y>> : y \in 0..7} \cup {<<x, 6>> : x \in 0..7},
     unknown |-> {<<1, 1>>}]

\* the same wall on a grid of resolution 0.10, with an unmapped column
CoarseMap ==
    [resolution |-> 2, size_x |-> 4, size_y |-> 4,
     lethal |-> {<<3, y>> : y \in 0..3},
     unknown |-> {<<0, y>> : y \in 0..3}]

\* a default-constructed Costmap2D: resolution 0, no cells
EmptyMap ==
    [resolution |-> 0, size_x |-> 0, size_y |-> 0, lethal |-> {}, unknown |-> {}]

\* a grid whose resolution is the search bound
WideMap ==
    [resolution |-> 3, size_x |-> 3, size_y |-> 3,
     lethal |-> {<<2, 0>>, <<2, 1>>, <<2, 2>>}, unknown |-> {}]

\* the grids given to whole calls of correct_once: the search ends on each
Costmaps == {WallMap, CoarseMap}

\* the grids given to the calls followed step by step
StepCostmaps == {WallMap, CoarseMap, WideMap, EmptyMap}

\* scans: the ranges (positive when finite), angle_min and angle_increment
MakeScan(ranges, angle_min) ==
    [ranges |-> ranges, angle_min |-> angle_min, angle_increment |-> 1]

Scans ==
    {MakeScan(<<Fin(2), Fin(3)>>, 0),
     MakeScan(<<Fin(1), NaN, Fin(3), Fin(2)>>, 0),
     MakeScan(<<Infinity, Fin(2), Fin(1)>>, -1)}

\* answers of the transform buffer for scan.header.frame_id -> base_footprint
TfAnswers ==
    {[ok |-> FALSE, t |-> Identity],
     [ok |-> TRUE, t |-> Pose(1, 0, 0)]}

NoScan == MakeScan(<<>>, 0)
NoTf == [ok |-> FALSE, t |-> Identity]

(***************************************************************************)
(* State                                                                   *)
(***************************************************************************)
VARIABLES
    particles_,   \* std::vector<Particle> particles_
    generator_,   \* the random engine
    bf2laser_,    \* the transform kept from the last successful lookup
    ops,          \* calls made since init()
    last,         \* the last call made and its arguments
    prev,         \* particles_, generator_ and the call before, when the last call was made
    sorted_,      \* the sorted set the last reseed() worked on
    pc,           \* where a correct_once call followed step by step stands
    call,         \* its arguments
    j,            \* its reading index
    i,            \* its particle index
    dist,         \* the search distance of get_error_distance_to_obstacle
    ret,          \* the last return of get_error_distance_to_obstacle
    calls         \* correct_once calls followed step by step so far

vars == <<particles_, generator_, bf2laser_, ops, last, prev, sorted_,
          pc, call, j, i, dist, ret, calls>>

stepVars == <<pc, call, j, i, dist, ret, calls>>

Call(op, movement, scan, costmap, tf, warned, processed) ==
    [op |-> op, movement |-> movement, scan |-> scan, costmap |-> costmap,
     tf |-> tf, warned |-> warned, processed |-> processed]

NoCall == [scan |-> NoScan, costmap |-> EmptyMap]
NoRet == [valid |-> FALSE, i |-> 0, j |-> 0, before |-> RZero, err |-> Infinity]

\* on_configure / init(pose_init): the state the filter starts from
Init ==
    /\ \E seed \in 0..MaxSeed, pose_init \in SeedPoses :
         /\ particles_ = init(pose_init, seed)
         /\ generator_ = Advance(seed, 3 * NUM_PART)
         /\ last = Call("init", pose_init, NoScan, EmptyMap, NoTf, FALSE, 0)
         /\ prev = [particles |-> <<>>, generator |-> seed, op |-> "none"]
    /\ bf2laser_ = Identity   \* written by correct_once before it is read
    /\ ops = 0
    /\ sorted_ = <<>>
    /\ pc = "idle"
    /\ call = NoCall
    /\ j = 0
    /\ i = 0
    /\ dist = 0
    /\ ret = NoRet
    /\ calls = 0

Before == [particles |-> particles_, generator |-> generator_, op |-> last.op]

Predict(movement) ==
    /\ ops < MaxOps
    /\ particles_' = predict(particles_, movement, generator_)
    /\ generator_' = Advance(generator_, 2 * Len(particles_))
    /\ last' = Call("predict", movement, NoScan, EmptyMap, NoTf, FALSE, 0)
    /\ prev' = Before
    /\ ops' = ops + 1
    /\ UNCHANGED <<bf2laser_, sorted_, stepVars>>

CorrectOnce(scan, costmap, tf) ==
    /\ ops < MaxOps
    /\ LET r == correct_once(particles_, bf2laser_, scan, costmap, tf)
       IN  /\ particles_' = r.particles
           /\ bf2laser_' = r.bf2laser
           /\ last' = Call("correct_once", Identity, scan, costmap, tf,
                           r.warned, r.processed)
    /\ prev' = Before
    /\ ops' = ops + 1
    /\ UNCHANGED <<generator_, sorted_, stepVars>>

Normalize ==
    /\ ops < MaxOps
    /\ particles_' = normalize(particles_)
    /\ last' = Call("normalize", Identity, NoScan, EmptyMap, NoTf, FALSE, 0)
    /\ prev' = Before
    /\ ops' = ops + 1
    /\ UNCHANGED <<generator_, bf2laser_, sorted_, stepVars>>

Reseed ==
    /\ ops < MaxOps
    /\ \E sorted \in SortOutcomes(normalize(particles_)) :
         /\ sorted_' = sorted
         /\ particles_' = reseed(sorted, generator_)
    /\ generator_' = Advance(generator_, 4 * number_losers(Len(particles_)))
    /\ last' = Call("reseed", Identity, NoScan, EmptyMap, NoTf, FALSE, 0)
    /\ prev' = Before
    /\ ops' = ops + 1
    /\ UNCHANGED <<bf2laser_, stepVars>>

Next ==
    \/ \E movement \in Movements : Predict(movement)
    \/ \E scan \in Scans, costmap \in Costmaps, tf \in TfAnswers :
         CorrectOnce(scan, costmap, tf)
    \/ Normalize
    \/ Reseed

Spec == Init /\ [][Next]_vars

(***************************************************************************)
(* normalize() alone, on weight vectors of any content                     *)
(***************************************************************************)
\* length of the weight vectors
ScenarioLen == 4

Tenths == {Rat(n, 10) : n \in 0..MaxTenth}

InitNormalize ==
    /\ \E w \in [1..ScenarioLen -> Tenths] :
         particles_ = [k \in 1..ScenarioLen |-> Particle(Identity, w[k])]
    /\ generator_ = 0
    /\ last = Call("none", Identity, NoScan, EmptyMap, NoTf, FALSE, 0)
    /\ prev = [particles |-> <<>>, generator |-> 0, op |-> "none"]
    /\ bf2laser_ = Identity
    /\ ops = 0
    /\ sorted_ = <<>>
    /\ pc = "idle"
    /\ call = NoCall
    /\ j = 0
    /\ i = 0
    /\ dist = 0
    /\ ret = NoRet
    /\ calls = 0

NextNormalize == Normalize

SpecNormalize == InitNormalize /\ [][NextNormalize]_vars

(***************************************************************************)
(* correct_once followed step by step                                      *)
(***************************************************************************)
\* the call is made: the lookup, and the warning and return when it fails
CorrectCall(scan, costmap, tf) ==
    /\ pc = "idle"
    /\ calls < MaxCalls
    /\ calls' = calls + 1
    /\ call' = [scan |-> scan, costmap |-> costmap]
    /\ last' = Call("correct_once", Identity, scan, costmap, tf, ~tf.ok, 0)
    /\ prev' = Before
    /\ bf2laser_' = IF tf.ok THEN tf.t ELSE bf2laser_
    /\ pc' = IF tf.ok THEN "reading" ELSE "idle"
    /\ j' = 0
    /\ i' = 0
    /\ dist' = 0
    /\ ret' = NoRet
    /\ UNCHANGED <<particles_, generator_, ops, sorted_>>

\* the head of the loop over the readings, and the skip test
ReadingStep ==
    /\ pc = "reading"
    /\ IF j >= Len(call.scan.ranges)
       THEN /\ pc' = "idle"
            /\ UNCHANGED <<j, last>>
       ELSE IF SkipReading(call.scan.ranges[j + 1])
       THEN /\ j' = j + 1
            /\ UNCHANGED <<pc, last>>
       ELSE /\ pc' = "particle"
            /\ last' = [last EXCEPT !.processed = @ + 1]
            /\ UNCHANGED j
    /\ i' = 0
    /\ UNCHANGED <<particles_, generator_, bf2laser_, ops, prev, sorted_,
                   call, dist, ret, calls>>

\* get_error_distance_to_obstacle returns err for particle i: the weight update
Return(err) ==
    /\ particles_' = [particles_ EXCEPT ![i + 1].prob = UpdateProb(@, err)]
    /\ ret' = [valid |-> TRUE, i |-> i, j |-> j,
               before |-> particles_[i + 1].prob, err |-> err]
    /\ i' = i + 1
    /\ pc' = "particle"

\* the head of the loop over the particles, and get_error_distance_to_obstacle
\* up to the search loop
ParticleStep ==
    /\ pc = "particle"
    /\ IF i >= NUM_PART
       THEN /\ j' = j + 1
            /\ pc' = "reading"
            /\ UNCHANGED <<particles_, i, dist, ret>>
       ELSE LET laser2point == get_tranform_to_read(call.scan, j)
                map2point == MapPoint(particles_[i + 1].pose, bf2laser_, laser2point)
            IN  IF laser2point.kind # "fin"
                THEN Return(Infinity) /\ UNCHANGED <<j, dist>>
                ELSE IF get_cost(map2point, call.costmap) = LETHAL_OBSTACLE
                THEN Return(Fin(0)) /\ UNCHANGED <<j, dist>>
                ELSE /\ dist' = call.costmap.resolution
                     /\ pc' = "positive"
                     /\ UNCHANGED <<particles_, j, i, ret>>
    /\ UNCHANGED <<generator_, bf2laser_, ops, last, prev, sorted_, call, calls>>

\* the loop condition and the probe at +dist
SearchPositive ==
    /\ pc = "positive"
    /\ LET laser2point == get_tranform_to_read(call.scan, j)
           aux == MapPoint(particles_[i + 1].pose, bf2laser_, laser2point)
           unit == UnitVector(laser2point)
       IN  IF ~InSearch(dist)
           THEN Return(Infinity) /\ UNCHANGED dist
           ELSE IF get_cost(Offset(aux, unit, dist), call.costmap) = LETHAL_OBSTACLE
           THEN Return(Fin(dist)) /\ UNCHANGED dist
           ELSE /\ pc' = "negative"
                /\ UNCHANGED <<particles_, i, dist, ret>>
    /\ UNCHANGED <<generator_, bf2laser_, ops, last, prev, sorted_, call, j, calls>>

\* the probe at -dist and the step of dist
SearchNegative ==
    /\ pc = "negative"
    /\ LET laser2point == get_tranform_to_read(call.scan, j)
           aux == MapPoint(particles_[i + 1].pose, bf2laser_, laser2point)
           unit == UnitVector(laser2point)
       IN  IF get_cost(Offset(aux, unit, -dist), call.costmap) = LETHAL_OBSTACLE
           THEN Return(Fin(dist)) /\ UNCHANGED dist
           ELSE /\ dist' = dist + call.costmap.resolution
                /\ pc' = "positive"
                /\ UNCHANGED <<particles_, i, ret>>
    /\ UNCHANGED <<generator_, bf2laser_, ops, last, prev, sorted_, call, j, calls>>

\* the steps of a call under way
Step == ReadingStep \/ ParticleStep \/ SearchPositive \/ SearchNegative

NextCorrect ==
    \/ \E scan \in Scans, costmap \in StepCostmaps, tf \in TfAnswers :
         CorrectCall(scan, costmap, tf)
    \/ ReadingStep
    \/ ParticleStep
    \/ SearchPositive
    \/ SearchNegative

SpecCorrect == Init /\ [][NextCorrect]_vars

\* calls with the transform at hand, on the grids of resolution 0 and 0.15
NextTerminate ==
    \/ \E scan \in Scans, costmap \in {EmptyMap, WideMap} :
         CorrectCall(scan, costmap, [ok |-> TRUE, t |-> Pose(1, 0, 0)])
    \/ ReadingStep
    \/ ParticleStep
    \/ SearchPositive
    \/ SearchNegative

\* the filter is single-threaded and synchronous: a call under way keeps running
SpecTerminate == Init /\ [][NextTerminate]_vars /\ WF_vars(Step)

\* a call followed step by step ends as the whole call does
StepwiseAgrees ==
    (pc = "idle" /\ last.op = "correct_once" /\ last.tf.ok) =>
        LET r == correct_once(prev.particles, Identity, call.scan, call.costmap, last.tf)
        IN  /\ particles_ = r.particles
            /\ bf2laser_ = r.bf2laser
            /\ last.processed = r.processed

(***************************************************************************)
(* Properties                                                              *)
(***************************************************************************)
Probs(ps) == [k \in 1..Len(ps) |-> ps[k].prob]
Poses(ps) == [k \in 1..Len(ps) |-> ps[k].pose]

\* floor(0.8 * n) losers and the n - floor(0.8 * n) particles kept
Losers(n) == (4 * n) \div 5
Kept(n) == n - Losers(n)

\* pose p is pose b moved by a jitter of at most one unit on x, y and yaw
Jittered(p, b) ==
    \E nx \in -1..1, ny \in -1..1, nt \in -1..1 :
        p = Pose(b.x + nx, b.y + ny, b.yaw + nt)

\* s holds the particles of t, each as often, by descending weight
SortedVersionOf(s, t) ==
    /\ Len(s) = Len(t)
    /\ \A k \in 1..Len(s) - 1 : RLeq(s[k + 1].prob, s[k].prob)
    /\ \A k \in 1..Len(t) :
         Cardinality({m \in 1..Len(s) : s[m] = t[k]}) =
         Cardinality({m \in 1..Len(t) : t[m] = t[k]})

\* C1: after init and after every predict, correct_once, normalize and reseed
\* the set holds exactly N particles; reseed replaces a set of N by one of
\* K + L = N, K = N - floor(0.8 N) kept and L = floor(0.8 N) regenerated
C1_ExactlyN ==
    /\ NUM_PART >= 5
    /\ Len(particles_) = NUM_PART
    /\ DOMAIN particles_ = 1..NUM_PART
    /\ last.op = "reseed" =>
         /\ Len(prev.particles) = NUM_PART
         /\ Len(particles_) = Kept(NUM_PART) + Losers(NUM_PART)

\* a reseed of a set of unequal weights has been made after another call
C1_Witness ==
    /\ last.op = "reseed"
    /\ ops = 2
    /\ Len(particles_) = NUM_PART
    /\ \E k \in 1..NUM_PART : prev.particles[k].prob # prev.particles[1].prob

\* C2: when the transform from the sensor frame to the base frame is not
\* available, correct_once logs a warning and returns with every particle's
\* pose and weight as they were
C2_NoTransformNoChange ==
    (last.op = "correct_once" /\ ~last.tf.ok) =>
        /\ particles_ = prev.particles
        /\ last.warned

\* such a call was made with a scan and a grid that would have changed weights
C2_Witness ==
    /\ last.op = "correct_once"
    /\ ~last.tf.ok
    /\ last.warned
    /\ CorrectFrom(prev.particles, 0, last.scan, last.costmap, bf2laser_)
         # prev.particles

C4_BaseIsSurvivor ==
    last.op = "reseed" =>
        LET n == Len(sorted_)
        IN  \A m \in Kept(n) + 1..Len(particles_) :
                \E k \in 1..Kept(n) : Jittered(particles_[m].pose, sorted_[k].pose)

\* the indexes (0-based) of the finite readings of a scan
FiniteIndexes(scan) ==
    {m \in 0..Len(scan.ranges) - 1 : scan.ranges[m + 1].kind = "fin"}

\* the particles after the readings of the indexes `todo`, by rising index
RECURSIVE AfterReadings(_, _, _, _, _)
AfterReadings(ps, todo, scan, costmap, bf2laser) ==
    IF todo = {} THEN ps
    ELSE LET m == CHOOSE x \in todo : \A y \in todo : x <= y
         IN  AfterReadings(
               CorrectReading(ps, bf2laser, get_tranform_to_read(scan, m), costmap),
               todo \ {m}, scan, costmap, bf2laser)

\* C6: with the transform available, the weights after correct_once are those
\* got from the finite readings alone, each at its own index, taken in order;
\* a NaN or infinite reading changes no weight, and exactly the finite readings
\* go past the skip test
C6_SkipsNonFinite ==
    (last.op = "correct_once" /\ last.tf.ok) =>
        /\ particles_ = AfterReadings(prev.particles, FiniteIndexes(last.scan),
                                      last.scan, last.costmap, last.tf.t)
        /\ last.processed = Cardinality(FiniteIndexes(last.scan))

\* a scan of three finite readings and a NaN has changed the weights
C6_Witness ==
    /\ last.op = "correct_once"
    /\ last.tf.ok
    /\ Len(last.scan.ranges) = 4
    /\ \E m \in 1..4 : isnan(last.scan.ranges[m])
    /\ last.processed = 3
    /\ Probs(particles_) # Probs(prev.particles)

\* C7: predict changes no weight, and with the identity movement no pose: the
\* noise of the identity movement is the identity for every draw
C7_IdentityPredict ==
    /\ \A g \in 0..7 : add_noise(Identity, g) = Identity
    /\ last.op = "predict" =>
         /\ Probs(particles_) = Probs(prev.particles)
         /\ last.movement = Identity => Poses(particles_) = Poses(prev.particles)

\* predict(identity) was called when the draws of the noise were not zero
C7_Witness ==
    /\ last.op = "predict"
    /\ last.movement = Identity
    /\ ops = 2
    /\ Sample(prev.generator) # 0
    /\ Sample(NextGen(prev.generator)) # 0
    /\ Poses(particles_) = Poses(prev.particles)

\* C10: reseed works on the normalized set sorted by descending weight; it
\* keeps the first K sorted particles as they are and in order, then for
\* i = 0 .. L-1 appends a particle at the i-th sorted particle's pose plus
\* jitter, with half the weight of the particle appended just before it
C10_ReseedReference ==
    last.op = "reseed" =>
        LET n == Len(prev.particles)
            K == Kept(n)
            L == Losers(n)
        IN  /\ SortedVersionOf(sorted_, normalize(prev.particles))
            /\ Len(particles_) = K + L
            /\ \A k \in 1..K : particles_[k] = sorted_[k]
            /\ \A m \in 0..L - 1 :
                 /\ Jittered(particles_[K + m + 1].pose, sorted_[m + 1].pose)
                 /\ particles_[K + m + 1].prob
                      = RDiv(particles_[K + m].prob, <<2, 1>>)

\* a set of unequal weights was reseeded, with at least two losers
C10_Witness ==
    /\ last.op = "reseed"
    /\ Losers(Len(prev.particles)) >= 2
    /\ \E k \in 1..Len(prev.particles) :
         prev.particles[k].prob # prev.particles[1].prob
    /\ particles_[Len(particles_)].prob
         # RDiv(sorted_[Kept(Len(sorted_))].prob, <<2, 1>>)

\* the cell holding the map point is on the grid and is a lethal obstacle
Lethal(point, costmap) ==
    /\ point.x >= 0
    /\ point.y >= 0
    /\ costmap.resolution > 0
    /\ point.x \div costmap.resolution < costmap.size_x
    /\ point.y \div costmap.resolution < costmap.size_y
    /\ <<point.x \div costmap.resolution, point.y \div costmap.resolution>>
         \in costmap.lethal

\* the point at distance d from `point` along the ray, d of either sign
Along(point, unit, d) ==
    [x |-> point.x + Cos4(point.yaw) * unit.x * d - Sin4(point.yaw) * unit.y * d,
     y |-> point.y + Sin4(point.yaw) * unit.x * d + Cos4(point.yaw) * unit.y * d]

\* the step numbers n whose distance n * resolution lies within 3 sigma and at
\* which the cell at +d or at -d along the ray is lethal
Hits(point, unit, costmap) ==
    {n \in 1..3 * o :
       /\ n * costmap.resolution < 3 * o
       /\ \/ Lethal(Along(point, unit, n * costmap.resolution), costmap)
          \/ Lethal(Along(point, unit, -(n * costmap.resolution)), costmap)}

\* the error distance by its description
RefError(point, unit, costmap) ==
    IF Lethal(point, costmap) THEN Fin(0)
    ELSE LET hits == Hits(point, unit, costmap)
         IN  IF hits = {} THEN Infinity
             ELSE Fin(costmap.resolution * (CHOOSE n \in hits : \A m \in hits : n <= m))

\* the reading and the map point of the last return
RetReading == get_tranform_to_read(call.scan, ret.j)
RetPoint == MapPoint(particles_[ret.i + 1].pose, bf2laser_, RetReading)

\* C5: a call of correct_once under way comes to its end: the outward search
\* made for each reading and particle ends, whatever the grid's resolution
C5_Terminates == (pc # "idle") ~> (pc = "idle")

\* C8: for a finite reading the error distance is 0 when the cell at the
\* projected point is lethal; otherwise the smallest d = n * resolution below
\* 3 sigma at which the cell at +d or -d along the ray is lethal; infinity when
\* there is none.  Cells off the grid or unknown are never lethal
C8_ErrorDistance ==
    ret.valid => ret.err = RefError(RetPoint, UnitVector(RetReading), call.costmap)

\* resolution 0.05, nearest lethal cell 0.10 along the ray: error 0.10, found
\* at the second step
C8_Witness ==
    /\ ret.valid
    /\ call.costmap.resolution = 1
    /\ ret.err = Fin(2)
    /\ dist = 2 * call.costmap.resolution
    /\ ~Lethal(RetPoint, call.costmap)
    /\ ~Lethal(Along(RetPoint, UnitVector(RetReading), 1), call.costmap)
    /\ ~Lethal(Along(RetPoint, UnitVector(RetReading), -1), call.costmap)

\* the likelihood of error distance e, and the largest one, 1/(sqrt(2 pi) sigma)
Likelihood(e) == RMul(normal_comp_1, normal_comp_2(e \div o))
MaxLikelihood == normal_comp_1

\* C9: within a call of correct_once no pose changes and no weight decreases;
\* a reading of finite error e adds the positive likelihood of e to the weight
\* of the particle, the sum being floored at 1e-6; a reading of infinite error
\* leaves the weight as it is; a particle whose projected point is in a lethal
\* cell gains the largest likelihood
C9_WeightsGrow ==
    [][(pc # "idle") =>
         /\ Poses(particles_') = Poses(particles_)
         /\ \A k \in 1..NUM_PART : RLeq(particles_[k].prob, particles_'[k].prob)
         /\ \A e \in 0..3 * o :
              RLess(RZero, Likelihood(e)) /\ RLeq(Likelihood(e), MaxLikelihood)
         /\ (i' # i + 1) => particles_' = particles_
         /\ (i' = i + 1) =>
              LET e == ret'.err
                  w == particles_[i + 1].prob
                  w2 == particles_'[i + 1].prob
                  point == MapPoint(particles_[i + 1].pose, bf2laser_,
                                    get_tranform_to_read(call.scan, j))
              IN  /\ ret'.before = w
                  /\ \A k \in 1..NUM_PART : k # i + 1 => particles_'[k] = particles_[k]
                  /\ isinf(e) => w2 = w
                  /\ ~isinf(e) =>
                       /\ w2 = RMax(RAdd(w, Likelihood(e.v)), MinProb)
                       /\ RLess(w, w2)
                       /\ RLeq(MinProb, w2)
                  /\ Lethal(point, call.costmap) => w2 = RAdd(w, MaxLikelihood)
      ]_vars

\* a particle whose weight an earlier reading had raised gains the largest
\* likelihood from a reading that falls in a lethal cell
C9_Witness ==
    /\ ret.valid
    /\ ret.err = Fin(0)
    /\ Lethal(RetPoint, call.costmap)
    /\ RLess(Rat(1, NUM_PART), ret.before)
    /\ particles_[ret.i + 1].prob = RAdd(ret.before, MaxLikelihood)

=============================================================================
